---- MODULE Spec2Model ----
(***************************************************************************)
(* Model of pandora/confidence/confidence.py: the AbstractConfidence       *)
(* registry / factory (__new__, register_subclass) and the indicator       *)
(* accumulator allocate_confidence_map.                                    *)
(*                                                                         *)
(* Arrays.  A confidence map has shape (1, ext): one row, ext columns, so  *)
(* a 2D array is a tuple over 1..ext and a (row, col, indicator) layer is  *)
(* a sequence of such tuples, one per indicator.  Values are integers; the *)
(* float32-representable ones are the even ones, NaN is a value of its own.*)
(***************************************************************************)
EXTENDS Integers, Sequences, FiniteSets, TLC

\* ---------------------------------------------------------------- bounds
MaxDepth == 2
MaxRegs == 3

\* ------------------------------------------------------------ value model
NaN == -1
F32Vals == {2, NaN}
Names == {"ambiguity", "risk"}
Exts == {1, 2}
Keys == {"ambiguity", "std"}
Classes == {"AmbiguityCls", "StdCls"}
NoClass == "unregistered"

\* np.float32 conversion (astype / assignment into a float32 array): round to
\* the nearest representable value, NaN stays NaN.
Float32(v) == IF v = NaN THEN NaN ELSE 2 * ((v + 1) \div 2)

Maps(ext) == [1..ext -> F32Vals]

\* ------------------------------------------------------------- datasets
\* An xarray.Dataset as far as the accumulator looks at it: its (row, col)
\* extent, whether the data variable confidence_measure is present, that
\* variable's slices and the indicator coordinate.  None is the null map.
None == [none |-> TRUE, ext |-> 0, has |-> FALSE, data |-> <<>>, indicator |-> <<>>]
Fresh(ext) == [none |-> FALSE, ext |-> ext, has |-> FALSE, data |-> <<>>, indicator |-> <<>>]

\* np.full((nb_row, nb_col, depth), np.nan, dtype=np.float32)
Full(ext, depth) == [i \in 1..depth |-> [p \in 1..ext |-> NaN]]

\* bug variant: the copy stops one slice short
SetOldShort(arr, old) == [i \in 1..Len(arr) |-> IF i < Len(arr) - 1 THEN old[i] ELSE arr[i]]

\* conf_measure[:, :, :-1] = old
SetOld(arr, old) == [i \in 1..Len(arr) |-> IF i < Len(arr) THEN old[i] ELSE arr[i]]

\* numpy broadcasting of a (1, m) array into a (1, n) slot
Broadcastable(m, n) == m = n \/ m = 1
Broadcast(map, n) == [p \in 1..n |-> Float32(map[IF Len(map) = 1 THEN 1 ELSE p])]

\* bug variant: the new map is written at index 0 instead of -1
SetFirst(arr, map, ext) == [i \in 1..Len(arr) |-> IF i = 1 THEN Broadcast(map, ext) ELSE arr[i]]

\* conf_measure[:, :, -1] = confidence_map
SetLast(arr, map, ext) == [i \in 1..Len(arr) |-> IF i = Len(arr) THEN Broadcast(map, ext) ELSE arr[i]]

\* bug variant: np.append(name, indicator)
PrependIndicator(indicator, name) == <<name>> \o indicator

\* np.append(np.copy(indicator), name)
AppendIndicator(indicator, name) == Append(indicator, name)

\* ------------------------------------------------- bindings and xarray ops
\* A local name of allocate_confidence_map bound to a Dataset: obj says
\* whether the name still refers to the caller's object ("arg") or to a
\* Dataset created inside the call ("new"); val is the value seen through
\* the name; arg is the state of the caller's object; err the pending error.
Bind(ds) == [err |-> "none", obj |-> "arg", val |-> ds, arg |-> ds]

\* Dataset.drop_dims('indicator'): a new Dataset without the variables and
\* coordinates that use the dimension.
DropDims(b) ==
    [b EXCEPT !.obj = "new",
              !.val = [b.val EXCEPT !.has = FALSE, !.data = <<>>, !.indicator = <<>>]]

\* bug variant: the coordinate is set on the Dataset the name refers to
AssignCoordsInPlace(b, indicator) ==
    LET v == [b.val EXCEPT !.indicator = indicator]
    IN  [b EXCEPT !.val = v, !.arg = IF b.obj = "arg" THEN v ELSE b.arg]

\* Dataset.assign_coords(indicator=...): a new Dataset carrying the coordinate.
AssignCoords(b, indicator) ==
    [b EXCEPT !.obj = "new", !.val = [b.val EXCEPT !.indicator = indicator]]

\* ds['confidence_measure'] = xr.DataArray(data, dims=['row','col','indicator']):
\* updates the Dataset the name refers to, in place; sizes that conflict with
\* the Dataset's dimensions raise ValueError before anything is changed.
SetItem(b, data, ext) ==
    IF ext # b.val.ext \/ Len(data) # Len(b.val.indicator)
    THEN [b EXCEPT !.err = "ValueError"]
    ELSE LET v == [b.val EXCEPT !.has = TRUE, !.data = data]
         IN  [b EXCEPT !.val = v, !.arg = IF b.obj = "arg" THEN v ELSE b.arg]

\* bug variant: the disparity map receives only the new slice
SetItemLastOnly(b, src) ==
    IF src.ext # b.val.ext
    THEN [b EXCEPT !.err = "ValueError"]
    ELSE LET v == [b.val EXCEPT !.has = TRUE,
                                !.data = <<src.data[Len(src.data)]>>,
                                !.indicator = <<src.indicator[Len(src.indicator)]>>]
         IN  [b EXCEPT !.val = v, !.arg = IF b.obj = "arg" THEN v ELSE b.arg]

\* disp['confidence_measure'] = cv['confidence_measure']: the DataArray taken
\* out of cv carries cv's indicator coordinate; the caller's disparity map is
\* updated in place.  The callers modelled below hand in a layer-less
\* disparity map with the (row, col) coordinates of the cost volume, so the
\* conflicting-size branch is never taken.
SetItemFrom(b, src) ==
    IF src.ext # b.val.ext
    THEN [b EXCEPT !.err = "ValueError"]
    ELSE LET v == [b.val EXCEPT !.has = TRUE, !.data = src.data, !.indicator = src.indicator]
         IN  [b EXCEPT !.val = v, !.arg = IF b.obj = "arg" THEN v ELSE b.arg]

\* --------------------------------------------- allocate_confidence_map
\* lines 128-144: the cost volume already has a confidence layer
GrowCv(name, map, b) ==
    LET n == b.val.ext
        k == Len(b.val.data)
        c1 == SetOld(Full(n, k + 1), b.val.data)
    IN  IF ~Broadcastable(Len(map), n)
        THEN [b EXCEPT !.err = "ValueError"]
        ELSE SetItem(AssignCoords(DropDims(b), AppendIndicator(b.val.indicator, name)),
                     SetLast(c1, map, n), n)

\* lines 146-149: first confidence layer of the cost volume
FirstCv(name, map, b) ==
    SetItem(AssignCoords(b, <<name>>),
            <<[p \in 1..Len(map) |-> Float32(map[p])]>>, Len(map))

CvStep(name, map, cv) ==
    IF cv.has THEN GrowCv(name, map, Bind(cv)) ELSE FirstCv(name, map, Bind(cv))

\* bug variant: line 160 missing, the new slice keeps the NaN fill
GrowDispNoWrite(name, map, b) ==
    LET n == b.val.ext
        k == Len(b.val.data)
        c1 == SetOld(Full(n, k + 1), b.val.data)
    IN  IF ~Broadcastable(Len(map), n)
        THEN [b EXCEPT !.err = "ValueError"]
        ELSE SetItem(AssignCoords(DropDims(b), AppendIndicator(b.val.indicator, name)),
                     c1, n)

\* lines 152-168: the disparity map already has a confidence layer
GrowDisp(name, map, b) ==
    LET n == b.val.ext
        k == Len(b.val.data)
        c1 == SetOld(Full(n, k + 1), b.val.data)
    IN  IF ~Broadcastable(Len(map), n)
        THEN [b EXCEPT !.err = "ValueError"]
        ELSE SetItem(AssignCoords(DropDims(b), AppendIndicator(b.val.indicator, name)),
                     SetLast(c1, map, n), n)

\* bug variant: line 151 missing, None.data_vars raises AttributeError
DispStepUnguarded(name, map, disp, cvNew) ==
    IF disp.none THEN [Bind(disp) EXCEPT !.err = "AttributeError"]
    ELSE IF disp.has THEN GrowDisp(name, map, Bind(disp))
    ELSE SetItemFrom(Bind(disp), cvNew)

\* lines 151-170
DispStep(name, map, disp, cvNew) ==
    IF disp.none THEN Bind(disp)
    ELSE IF disp.has THEN GrowDisp(name, map, Bind(disp))
    ELSE SetItemFrom(Bind(disp), cvNew)

\* The whole call: what is returned (or the error raised) and what the
\* caller's two argument objects look like afterwards.
Allocate(name, map, disp, cv) ==
    LET c == CvStep(name, map, cv)
        d == IF c.err = "none" THEN DispStep(name, map, disp, c.val) ELSE Bind(disp)
    IN  [err |-> IF c.err # "none" THEN c.err ELSE d.err,
         at |-> IF c.err # "none" THEN "cv" ELSE IF d.err # "none" THEN "disp" ELSE "none",
         retCv |-> c.val, retDisp |-> d.val,
         argCv |-> c.arg, argDisp |-> d.arg]

\* ------------------------------------------------------ registry / factory
\* AbstractConfidence.__new__ when cls is AbstractConfidence.  cfg is the
\* keyword dictionary: present says whether the key confidence_method is in
\* it, isStr whether its value is a str, value the value (a key when a str).
FactoryNew(reg, cfg) ==
    IF ~cfg.present THEN [kind |-> "KeyError", cls |-> NoClass, via |-> "factory"]
    ELSE IF cfg.isStr
    THEN IF cfg.value \in DOMAIN reg /\ reg[cfg.value] # NoClass
         THEN [kind |-> "instance", cls |-> reg[cfg.value], via |-> "factory"]
         ELSE [kind |-> "SystemExit", cls |-> NoClass, via |-> "factory"]
    ELSE [kind |-> "None", cls |-> NoClass, via |-> "factory"]

\* AbstractConfidence.__new__ when cls is a subclass
SubclassNew(cls) == [kind |-> "instance", cls |-> cls, via |-> "subclass"]

\* bug variant: setdefault, the first registration wins
RegisterIfAbsent(reg, short_name, subclass) ==
    IF reg[short_name] # NoClass THEN reg ELSE [reg EXCEPT ![short_name] = subclass]

\* decorator(subclass) of register_subclass(short_name)
RegisterInto(reg, short_name, subclass) == [reg EXCEPT ![short_name] = subclass]

\* ------------------------------------------------------------------ state
VARIABLES
    confidence_methods_avail, \* the class-level registry
    regLog,                   \* history: the registrations made, in order
    cfgIn,                    \* the configuration of the last construction
    made,                     \* what the last construction produced
    madeAt,                   \* history: Len(regLog) at that construction
    regBefore,                \* history: the registry before that construction
    cv, disp,                 \* the pair the caller holds (last returned)
    inCv, inDisp,             \* the two containers as they were passed in
    callerCv, callerDisp,     \* the caller's two argument objects afterwards
    outcome,                  \* "init", "ok" or the error raised
    failedAt,                 \* "none", or the step that raised: "cv" or "disp"
    cvHist, dispHist,         \* history: the (name, map) merges behind cv / disp
    chain                     \* history: calls in a row fed the returned pair

regVars == <<confidence_methods_avail, regLog, cfgIn, made, madeAt, regBefore>>
accVars == <<cv, disp, inCv, inDisp, callerCv, callerDisp,
             outcome, failedAt, cvHist, dispHist, chain>>
vars == <<regVars, accVars>>

NoCfg == [present |-> FALSE, isStr |-> FALSE, value |-> "none"]
Cfgs ==
    {NoCfg}
    \cup {[present |-> TRUE, isStr |-> TRUE, value |-> k] : k \in Keys \cup {"nonexistent"}}
    \cup {[present |-> TRUE, isStr |-> FALSE, value |-> "3"]}

Init ==
    /\ confidence_methods_avail = [k \in Keys |-> NoClass]
    /\ regLog = <<>>
    /\ cfgIn = NoCfg
    /\ made = [kind |-> "init", cls |-> NoClass, via |-> "init"]
    /\ madeAt = 0
    /\ regBefore = confidence_methods_avail
    /\ cv \in {Fresh(e) : e \in Exts}
    /\ disp = None
    /\ inCv = cv
    /\ inDisp = None
    /\ callerCv = cv
    /\ callerDisp = None
    /\ outcome = "init"
    /\ failedAt = "none"
    /\ cvHist = <<>>
    /\ dispHist = <<>>
    /\ chain = 0

\* ---------------------------------------------------------------- actions
\* @AbstractConfidence.register_subclass(short_name) applied to a class
Register ==
    \E k \in Keys, c \in Classes :
        /\ Len(regLog) < MaxRegs
        /\ confidence_methods_avail' = RegisterInto(confidence_methods_avail, k, c)
        /\ regLog' = Append(regLog, [name |-> k, cls |-> c])
        /\ UNCHANGED <<cfgIn, made, madeAt, regBefore, accVars>>

\* AbstractConfidence(**cfg)
Construct ==
    \E cfg \in Cfgs :
        /\ cfgIn' = cfg
        /\ made' = FactoryNew(confidence_methods_avail, cfg)
        /\ madeAt' = Len(regLog)
        /\ regBefore' = confidence_methods_avail
        /\ UNCHANGED <<confidence_methods_avail, regLog, accVars>>

\* SomeSubclass(**cfg)
ConstructSubclass ==
    \E c \in Classes, cfg \in Cfgs :
        /\ cfgIn' = cfg
        /\ made' = SubclassNew(c)
        /\ madeAt' = Len(regLog)
        /\ regBefore' = confidence_methods_avail
        /\ UNCHANGED <<confidence_methods_avail, regLog, accVars>>

SameLayer(a, b) ==
    /\ a.has = b.has
    /\ a.has => /\ a.ext = b.ext
                /\ a.data = b.data
                /\ a.indicator = b.indicator

\* allocate_confidence_map(name, map, disp, cv).  The caller passes the cost
\* volume it holds or a new one without confidence layer, and as disparity
\* map None, the one it holds, or a new one without confidence layer that has
\* the cost volume's (row, col) coordinates.
AllocateConfidenceMap ==
    \E name \in Names, m \in Exts, cvSrc \in {"held", "fresh"},
       dispSrc \in {"held", "fresh", "none"}, e \in Exts :
      \E map \in Maps(m) :
        LET aCv == IF cvSrc = "held" THEN cv ELSE Fresh(e)
            aDisp == IF dispSrc = "held" THEN disp
                     ELSE IF dispSrc = "fresh" THEN Fresh(aCv.ext) ELSE None
            step == [name |-> name, map |-> map]
            fed == cvSrc = "held" /\ dispSrc = "held"
        IN  /\ cvSrc = "held" => e = 1
            /\ Len(aCv.data) < MaxDepth
            /\ Len(aDisp.data) < MaxDepth
            /\ \E r \in {Allocate(name, map, aDisp, aCv)} :
                 /\ inCv' = aCv
                 /\ inDisp' = aDisp
                 /\ callerCv' = r.argCv
                 /\ callerDisp' = r.argDisp
                 /\ outcome' = IF r.err = "none" THEN "ok" ELSE r.err
                 /\ failedAt' = r.at
                 /\ IF r.err = "none"
                    THEN /\ cv' = r.retCv
                         /\ disp' = r.retDisp
                         /\ cvHist' = Append(IF cvSrc = "held" THEN cvHist ELSE <<>>, step)
                         /\ dispHist' = IF aDisp.none THEN <<>>
                                        ELSE IF aDisp.has THEN Append(dispHist, step)
                                        ELSE cvHist'
                         /\ chain' = IF aDisp.none \/ ~SameLayer(aCv, aDisp) THEN 0
                                     ELSE IF fed /\ chain > 0 THEN chain + 1 ELSE 1
                    ELSE /\ cv' = IF cvSrc = "held" THEN r.argCv ELSE cv
                         /\ disp' = IF dispSrc = "held" THEN r.argDisp ELSE disp
                         /\ UNCHANGED <<cvHist, dispHist, chain>>
            /\ UNCHANGED regVars

Next == AllocateConfidenceMap
Spec == Init /\ [][Next]_vars

NextFactory == Register \/ Construct \/ ConstructSubclass
SpecFactory == Init /\ [][NextFactory]_vars

\* ----------------------------------------------------------- properties
Last(seq) == seq[Len(seq)]
NaNFree(slice) == \A p \in DOMAIN slice : slice[p] # NaN
Returned == outcome = "ok"
Raised == outcome \notin {"init", "ok"}

RECURSIVE LastRegistered(_, _, _)
\* the class of the latest entry for key k among the first n entries of log
LastRegistered(log, n, k) ==
    IF n = 0 THEN NoClass
    ELSE IF log[n].name = k THEN log[n].cls
    ELSE LastRegistered(log, n - 1, k)

\* C1: a call that returns, given a map whose extents match the cost volume's,
\* returns a cost volume with K+1 slices: the input's K slices in place, the
\* map as slice K, and the input's labels followed by the name.
C1_AppendsSlice ==
    (Returned /\ Len(Last(cvHist).map) = inCv.ext) =>
        LET K == Len(inCv.data) IN
        /\ cv.has
        /\ cv.ext = inCv.ext
        /\ Len(cv.data) = K + 1
        /\ \A i \in 1..K : cv.data[i] = inCv.data[i]
        /\ cv.data[K + 1] = Last(cvHist).map
        /\ cv.indicator = inCv.indicator \o <<Last(cvHist).name>>

C1_Witness ==
    /\ Returned
    /\ Len(Last(cvHist).map) = inCv.ext
    /\ Len(inCv.data) = 1
    /\ Len(cv.data) = 2
    /\ cv.data[1] # cv.data[2]
    /\ cv.indicator = <<"ambiguity", "risk">>

\* C2: after n >= 1 merges from a cost volume without confidence layer, the
\* label sequence has length n, equal to the layer's depth, and lists the
\* merged names in merge order, duplicates kept.
C2_LabelsFollowMerges ==
    /\ cv.has <=> Len(cvHist) >= 1
    /\ Len(cv.indicator) = Len(cvHist)
    /\ Len(cv.data) = Len(cv.indicator)
    /\ \A i \in 1..Len(cvHist) : cv.indicator[i] = cvHist[i].name

C2_Witness ==
    /\ Returned
    /\ Len(cvHist) = 2
    /\ cv.indicator = <<"risk", "risk">>

\* C3 (as claimed): constructing through the factory with an unregistered
\* string raises ConfigurationError and leaves the registry unchanged.
C3_UnknownRaisesConfigurationError ==
    (made.via = "factory" /\ cfgIn.present /\ cfgIn.isStr
        /\ (cfgIn.value \notin Keys \/ regBefore[cfgIn.value] = NoClass)
        /\ madeAt = Len(regLog)) =>
        /\ made.kind = "ConfigurationError"
        /\ confidence_methods_avail = regBefore

\* C4: the registry maps every name to the class of its latest registration,
\* and the factory returns an instance of the class registered latest under
\* the requested name at the time of the construction.
C4_LatestRegistrationWins ==
    /\ \A k \in Keys :
         confidence_methods_avail[k] = LastRegistered(regLog, Len(regLog), k)
    /\ (made.via = "factory" /\ cfgIn.present /\ cfgIn.isStr /\ cfgIn.value \in Keys
          /\ LastRegistered(regLog, madeAt, cfgIn.value) # NoClass) =>
            /\ made.kind = "instance"
            /\ made.cls = LastRegistered(regLog, madeAt, cfgIn.value)

C4_Witness ==
    /\ Len(regLog) = 3
    /\ regLog[1].name = "std" /\ regLog[1].cls = "StdCls"
    /\ regLog[2].name = "ambiguity"
    /\ regLog[3].name = "std" /\ regLog[3].cls = "AmbiguityCls"
    /\ made.via = "factory" /\ madeAt = 3
    /\ cfgIn.present /\ cfgIn.isStr /\ cfgIn.value = "std"
    /\ made.kind = "instance" /\ made.cls = "AmbiguityCls"
    /\ confidence_methods_avail["ambiguity"] = regLog[2].cls

\* C5: a non-null disparity map passed in without confidence layer comes back
\* with a confidence layer equal to the returned cost volume's: same depth,
\* labels and values.
C5_DispTakesCvLayer ==
    (Returned /\ ~inDisp.none /\ ~inDisp.has) =>
        /\ disp.has
        /\ SameLayer(disp, cv)
        /\ callerDisp = disp

C5_Witness ==
    /\ Returned /\ ~inDisp.none /\ ~inDisp.has
    /\ inCv.has
    /\ Len(disp.data) = 2
    /\ disp.data[1] # disp.data[2]
    /\ disp.indicator[1] # disp.indicator[2]

\* C6: with a null disparity map the disparity step cannot fail, the returned
\* disparity map is null, and the returned cost volume has one more slice and
\* label than the one passed in.
C6_NullDispStaysNull ==
    (inDisp.none /\ outcome # "init") =>
        /\ failedAt # "disp"
        /\ callerDisp.none
        /\ Returned =>
             /\ disp.none
             /\ Len(cv.data) = Len(inCv.data) + 1
             /\ Len(cv.indicator) = Len(inCv.indicator) + 1
             /\ Last(cv.indicator) = Last(cvHist).name

C6_Witness ==
    /\ Returned /\ inDisp.none /\ disp.none
    /\ inCv.has
    /\ Len(cv.data) = 2

\* C7: in both confidence layers, every slice written by an earlier merge
\* whose map had no NaN has no NaN.
C7_NoNaNLeftBehind ==
    /\ \A i \in 1..(Len(cv.data) - 1) :
         (i <= Len(cvHist) /\ NaNFree(cvHist[i].map)) => NaNFree(cv.data[i])
    /\ \A i \in 1..(Len(disp.data) - 1) :
         (i <= Len(dispHist) /\ NaNFree(dispHist[i].map)) => NaNFree(disp.data[i])

C7_Witness ==
    /\ Returned
    /\ Len(cv.data) = 2 /\ Len(disp.data) = 2 /\ inDisp.has
    /\ Len(cvHist) = 2 /\ Len(dispHist) = 2
    /\ NaNFree(cvHist[1].map) /\ NaNFree(dispHist[1].map)
    /\ NaNFree(cv.data[1]) /\ NaNFree(disp.data[1])
    /\ ~NaNFree(cv.data[2])

\* C8: a call either returns, and then the returned cost volume and the
\* returned non-null disparity map both end with the new slice and label, or
\* raises, and then the caller's cost volume and disparity map are as they
\* were passed in.
C8_AllOrNothing ==
    /\ Returned =>
         /\ Last(cv.indicator) = Last(cvHist).name
         /\ Last(cv.data) = Broadcast(Last(cvHist).map, cv.ext)
         /\ ~inDisp.none =>
              /\ disp.has
              /\ Last(disp.indicator) = Last(cvHist).name
              /\ Last(disp.data) = Broadcast(Last(cvHist).map, disp.ext)
    /\ Raised =>
         /\ callerCv = inCv
         /\ callerDisp = inDisp

C8_Witness ==
    /\ Raised
    /\ failedAt = "disp"
    /\ inDisp.has
    /\ ~inCv.has
    /\ callerCv = inCv
    /\ callerDisp = inDisp

\* C9 (as claimed): constructing through the factory without the key
\* confidence_method, or with a value that is no string, raises
\* ConfigurationError.
C9_BadConfigRaisesConfigurationError ==
    (made.via = "factory" /\ (~cfgIn.present \/ ~cfgIn.isStr)) =>
        made.kind = "ConfigurationError"

\* C10: while every call is fed the pair returned by the previous one,
\* starting from a pair whose confidence layers are both absent or equal, the
\* two confidence layers have the same depth, labels and values.
C10_LayersInSync ==
    chain > 0 => (cv.has /\ disp.has /\ ~disp.none /\ SameLayer(cv, disp))

C10_Witness ==
    /\ chain = 2
    /\ Len(cv.data) = 2
    /\ cv.data[1] # cv.data[2]
    /\ SameLayer(cv, disp)

====
